---- MODULE Spec2Model ----
(***************************************************************************)
(* Model of the animated greeting scene: src/components/CatTreeScene.tsx   *)
(* (CalicoCat, RotatingTree, DriftingSnow) and the App audio toggle.       *)
(*                                                                         *)
(* Number representation.  The program computes in IEEE doubles; the model *)
(* computes in fixed point and rounds every product to the nearest unit,   *)
(* ties to even:                                                           *)
(*   time, delta            milliseconds                                   *)
(*   blush scalar, sin      1/1000                                         *)
(*   pointer coordinates    1/1000 (normalised device coordinates)         *)
(*   rotations, lengths     1/1000 (milliradians, 1/1000 scene units)      *)
(*   tree rotation          microradians                                   *)
(*   particle coordinates   1/1000 scene units                             *)
(***************************************************************************)
EXTENDS Integers, Sequences, FiniteSets, TLC

VARIABLES
    now,              \* host time since the clock started (ms)
    oldTime,          \* THREE.Clock.oldTime: host time of the previous frame
    horizon,          \* the host time at which the behaviour is cut off (ms)
    constDelta,       \* the frame period when it is constant (0: frames are free)
    pointer,          \* state.pointer: [x, y] (1/1000)
    moves,            \* pointer moves so far
    mounted,          \* the refs whose .current is a live node
    sceneEdges,       \* the scene graph: set of <<parent, child>>
    isBlushing,       \* CalicoCat useState(false)
    blushTimeoutRef,  \* blushTimeoutRef.current: 0 is null, otherwise a timer id
    timers,           \* the host's pending timeouts: set of [id, due]
    nextTimerId,      \* the id the next setTimeout returns
    currentBlush,     \* currentBlush.current (1/1000)
    cat,              \* transforms and cheek material the CalicoCat callback writes
    clicks,           \* number of head clicks so far
    lastClick,        \* host time of the most recent head click (-1: none)
    framesSinceClick, \* frame updates since the most recent click    (tracked while
    peakBlush,        \* largest currentBlush while blushing since it    constDelta # 0)
    treeRotY,         \* RotatingTree group rotation.y (microradians)
    ribbon,           \* PeelRibbon meshes: outer and inner, each [distorted, verts, passes]
    effectRuns,       \* executions of the PeelRibbon distortion effect so far
    particles,        \* DriftingSnow particles: sequence of records
    sinceWrap,        \* per particle: frame updates since it was last put at y = 10
    isPlaying,        \* App useState(false)
    el,               \* the audio element: "paused", "waiting", "playing" or "error"
    pending,          \* play promises not yet settled: set of [origin, blocked]
    autoOutcome,      \* the mount effect's play promise: "none", "pending", "resolved", "rejected"
    playCalls,        \* calls of audioRef.current.play() so far
    toggles,          \* presses of the music button so far
    unhandled,        \* rejected play promises nobody handles
    playReturnsPromise, \* whether the host's play() returns a promise (or undefined)
    beforePress       \* history: flag and element before each of the last two presses

clockVars == <<now, oldTime, horizon, constDelta>>
inputVars == <<pointer, moves, mounted, sceneEdges>>
timerVars == <<isBlushing, blushTimeoutRef, timers, nextTimerId, clicks, lastClick>>
blushVars == <<currentBlush, cat, framesSinceClick, peakBlush>>
catVars == <<timerVars, blushVars>>
treeVars == <<treeRotY, ribbon, effectRuns>>
snowVars == <<particles, sinceWrap>>
audioVars == <<isPlaying, el, pending, autoOutcome, playCalls, toggles, unhandled,
               playReturnsPromise, beforePress>>

vars == <<clockVars, inputVars, catVars, treeVars, snowVars, audioVars>>

-----------------------------------------------------------------------------
(* Bounds of the model *)

\* head clicks in one behaviour
MaxClicks == 2
\* length of a behaviour, in steps of 250 ms
MaxTicks == 14
\* longest gap between two frame updates, in steps of 250 ms
MaxGapTicks == 3
\* how late the host may run a due timeout, in steps of 250 ms
MaxLateTicks == 1
\* pointer moves in one behaviour
MaxMoves == 2
\* length of a behaviour of the rotating tree, in steps of 250 ms (44 s: past 2 pi)
MaxTreeTicks == 176
\* presses of the music button in one behaviour
MaxToggles == 6
\* length of a behaviour of the whole scene, in steps of 250 ms
MaxSceneTicks == 9
\* executions of the PeelRibbon distortion effect in one behaviour
MaxEffectRuns == 3
\* latest elapsed time of a frame of the pose, in ms (past pi seconds)
MaxPoseMs == 3200
\* length of a behaviour compared across frame histories, in steps of 250 ms
MaxHistoryTicks == 9
\* length of a behaviour of head tracking, in steps of 250 ms (past 5 pi / 2 seconds)
MaxTrackTicks == 32

\* the time steps by which the host clock is observed to advance (ms)
Steps == {250}

\* the pointer positions tried
Pointers == { [x |-> 0, y |-> 0], [x |-> 1000, y |-> 1000], [x |-> -500, y |-> -100] }

-----------------------------------------------------------------------------
(* Arithmetic *)

Abs(x) == IF x < 0 THEN -x ELSE x

\* n / d rounded to the nearest integer, ties to even (d > 0)
RoundDiv(n, d) ==
    LET q == n \div d
        r == n % d
    IN  IF 2 * r < d THEN q
        ELSE IF 2 * r > d THEN q + 1
        ELSE IF q % 2 = 0 THEN q ELSE q + 1

\* THREE.MathUtils.lerp(x, y, t) = (1 - t) * x + t * y, with t = tn / td
Lerp(x, y, tn, td) == RoundDiv((td - tn) * x + tn * y, td)

-----------------------------------------------------------------------------
(* CalicoCat: the blush timer *)

\* the delay handed to setTimeout (ms)
BlushDelay == 2000

\* clearTimeout(id): a pending timeout with that id is dropped, anything else is a no-op
ClearTimeout(ts, id) == {tm \in ts : tm.id # id}

\* The timeouts left pending by handleHeadClick before it schedules the new one:
\* the previous one is cleared when the ref holds an id.
ClickMissingClear(ts, ref) == ts
ClickCleared(ts, ref) == IF ref # 0 THEN ClearTimeout(ts, ref) ELSE ts

\* handleHeadClick: setIsBlushing(true), clear the previous timeout, schedule a new one
handleHeadClick ==
    /\ clicks < MaxClicks
    /\ isBlushing' = TRUE
    /\ timers' = ClickCleared(timers, blushTimeoutRef)
                    \cup {[id |-> nextTimerId, due |-> now + BlushDelay]}
    /\ blushTimeoutRef' = nextTimerId
    /\ nextTimerId' = nextTimerId + 1
    /\ clicks' = clicks + 1
    /\ lastClick' = now
    /\ framesSinceClick' = 0
    /\ peakBlush' = IF constDelta # 0 THEN currentBlush ELSE 0
    /\ UNCHANGED <<currentBlush, cat>>
    /\ UNCHANGED <<clockVars, inputVars, treeVars, snowVars, audioVars>>

\* the timeout callback: setIsBlushing(false); the host runs it at or after its due time
TimeoutFiresEarly ==
    \E tm \in timers :
        /\ now >= tm.due - 250
        /\ timers' = timers \ {tm}
        /\ isBlushing' = FALSE
        /\ UNCHANGED <<blushTimeoutRef, nextTimerId, clicks, lastClick>>
        /\ UNCHANGED <<clockVars, inputVars, blushVars, treeVars, snowVars, audioVars>>
TimeoutFires ==
    \E tm \in timers :
        /\ now >= tm.due
        /\ timers' = timers \ {tm}
        /\ isBlushing' = FALSE
        /\ UNCHANGED <<blushTimeoutRef, nextTimerId, clicks, lastClick>>
        /\ UNCHANGED <<clockVars, inputVars, blushVars, treeVars, snowVars, audioVars>>

-----------------------------------------------------------------------------
(* CalicoCat: the blush scalar *)

\* targetBlush = isBlushing ? 1 : 0;
\* currentBlush.current = lerp(currentBlush.current, targetBlush, delta * 3.0)
BlushStepSlow(cur, blushing, delta) ==
    Lerp(cur, IF blushing THEN 1000 ELSE 0, delta, 1000)
BlushStep(cur, blushing, delta) ==
    Lerp(cur, IF blushing THEN 1000 ELSE 0, 3 * delta, 1000)

-----------------------------------------------------------------------------
(* CalicoCat: the pose *)

\* Math.sin of an angle >= 0 given in milliradians, result in 1/1000:
\* reduction to the first quadrant, then the Taylor polynomial of degree 7
SinQ(x) ==
    LET x2 == RoundDiv(x * x, 1000)
        t3 == RoundDiv(x * x2, 6000)
        t5 == RoundDiv(t3 * x2, 20000)
        t7 == RoundDiv(t5 * x2, 42000)
    IN  x - t3 + t5 - t7

Sin(a) ==
    LET r == a % 6283
        h == IF r >= 3142 THEN r - 3142 ELSE r
        q == IF h > 1571 THEN 3142 - h ELSE h
        v == IF SinQ(q) > 1000 THEN 1000 ELSE SinQ(q)
    IN  IF r >= 3142 THEN -v ELSE v

Cos(a) == Sin(a + 1571)

\* the nodes the callbacks reach through refs
CatRefs == {"head", "body", "tail", "leftArm", "rightArm", "leftCheek", "rightCheek"}
RibbonRefs == {"outer", "inner"}
AllRefs == CatRefs \cup RibbonRefs \cup {"tree", "snow", "audio"}

\* The transforms as the JSX constructs them (all in 1/1000; cheekMix is the alpha
\* of the colour blend from #ffb7b2 to #ff80ab).
CatRest ==
    [ headRotX |-> 0, headRotY |-> 0, headRotZ |-> 0,
      bodyPosY |-> -1800, bodyRotZ |-> 0,
      tailRotX |-> -500, tailRotY |-> 0,
      leftArmRotZ |-> 2500, rightArmRotZ |-> -2000,
      leftCheekScale |-> 1000, leftCheekOpacity |-> 400, leftCheekMix |-> 0,
      rightCheekScale |-> 1000, rightCheekOpacity |-> 400, rightCheekMix |-> 0 ]

\* head: rotation.y and rotation.x are smoothed with factor 0.1, rotation.z is set
\* x * (n / 1000), for a coefficient n given in 1/1000
Times(x, n) == RoundDiv(x * n, 1000)

HeadRotYDrifting(c, t, ptr) ==
    c.headRotY + Lerp(0, Times(Sin(t), 100) + Times(ptr.x, 600), 1, 10)
HeadRotY(c, t, ptr) == Lerp(c.headRotY, Times(Sin(t), 100) + Times(ptr.x, 600), 1, 10)
HeadRotXOvershoot(c, ptr) == Lerp(c.headRotX, -Times(ptr.y, 300), 21, 10)
HeadRotX(c, ptr) == Lerp(c.headRotX, -Times(ptr.y, 300), 1, 10)
HeadRotZ(t) == Times(Sin(2 * t), 50)

\* body, tail and left arm: set from the elapsed time alone
BodyPosYAccumulating(c, t) == c.bodyPosY + Times(Sin(2 * t), 30)
BodyPosYDoubled(c, t) == -1800 + Times(Sin(2 * t), 60)
BodyPosY(c, t) == -1800 + Times(Sin(2 * t), 30)
BodyRotZ(t) == Times(Sin(RoundDiv(3 * t, 2)), 40)
TailRotYCos(t) == Times(Cos(3 * t), 300)
TailRotY(t) == Times(Sin(3 * t), 300)
TailRotX(t) == -500 + Times(Sin(5 * t), 50)
LeftArmRotZCos(t) == 2500 + Times(Cos(RoundDiv(5 * t, 2)), 150)
LeftArmRotZ(t) == 2500 + Times(Sin(RoundDiv(5 * t, 2)), 150)

\* right arm: the callback holds no statement that writes to rightArmRef
RightArmRotZWaving(c, t) == -2000 - Times(Sin(RoundDiv(5 * t, 2)), 150)
RightArmRotZ(c, t) == c.rightArmRotZ

\* cheeks: interpolated from the blush scalar b
BlushScale(b) == 1000 + Times(b, 200)
BlushOpacity(b) == 200 + Times(b, 600)

\* the CalicoCat useFrame callback, on the transforms: c is the state before, t the
\* elapsed time, ptr the pointer, b the blush scalar after its lerp, m the live refs
CatPoseTailAccumulating(c, t, ptr, b, m) ==
    [ headRotX |-> IF "head" \in m THEN HeadRotX(c, ptr) ELSE c.headRotX,
      headRotY |-> IF "head" \in m THEN HeadRotY(c, t, ptr) ELSE c.headRotY,
      headRotZ |-> IF "head" \in m THEN HeadRotZ(t) ELSE c.headRotZ,
      bodyPosY |-> IF "body" \in m THEN BodyPosY(c, t) ELSE c.bodyPosY,
      bodyRotZ |-> IF "body" \in m THEN BodyRotZ(t) ELSE c.bodyRotZ,
      tailRotX |-> IF "tail" \in m THEN TailRotX(t) ELSE c.tailRotX,
      tailRotY |-> IF "tail" \in m THEN c.tailRotY + TailRotY(t) ELSE c.tailRotY,
      leftArmRotZ |-> IF "leftArm" \in m THEN LeftArmRotZ(t) ELSE c.leftArmRotZ,
      rightArmRotZ |-> RightArmRotZ(c, t),
      leftCheekScale |-> IF "leftCheek" \in m THEN BlushScale(b) ELSE c.leftCheekScale,
      leftCheekOpacity |-> IF "leftCheek" \in m THEN BlushOpacity(b) ELSE c.leftCheekOpacity,
      leftCheekMix |-> IF "leftCheek" \in m THEN b ELSE c.leftCheekMix,
      rightCheekScale |-> IF "rightCheek" \in m THEN BlushScale(b) ELSE c.rightCheekScale,
      rightCheekOpacity |-> IF "rightCheek" \in m THEN BlushOpacity(b) ELSE c.rightCheekOpacity,
      rightCheekMix |-> IF "rightCheek" \in m THEN b ELSE c.rightCheekMix ]
CatPose(c, t, ptr, b, m) ==
    [ headRotX |-> IF "head" \in m THEN HeadRotX(c, ptr) ELSE c.headRotX,
      headRotY |-> IF "head" \in m THEN HeadRotY(c, t, ptr) ELSE c.headRotY,
      headRotZ |-> IF "head" \in m THEN HeadRotZ(t) ELSE c.headRotZ,
      bodyPosY |-> IF "body" \in m THEN BodyPosY(c, t) ELSE c.bodyPosY,
      bodyRotZ |-> IF "body" \in m THEN BodyRotZ(t) ELSE c.bodyRotZ,
      tailRotX |-> IF "tail" \in m THEN TailRotX(t) ELSE c.tailRotX,
      tailRotY |-> IF "tail" \in m THEN TailRotY(t) ELSE c.tailRotY,
      leftArmRotZ |-> IF "leftArm" \in m THEN LeftArmRotZ(t) ELSE c.leftArmRotZ,
      rightArmRotZ |-> RightArmRotZ(c, t),
      leftCheekScale |-> IF "leftCheek" \in m THEN BlushScale(b) ELSE c.leftCheekScale,
      leftCheekOpacity |-> IF "leftCheek" \in m THEN BlushOpacity(b) ELSE c.leftCheekOpacity,
      leftCheekMix |-> IF "leftCheek" \in m THEN b ELSE c.leftCheekMix,
      rightCheekScale |-> IF "rightCheek" \in m THEN BlushScale(b) ELSE c.rightCheekScale,
      rightCheekOpacity |-> IF "rightCheek" \in m THEN BlushOpacity(b) ELSE c.rightCheekOpacity,
      rightCheekMix |-> IF "rightCheek" \in m THEN b ELSE c.rightCheekMix ]

\* the CalicoCat useFrame callback, run by the host loop with t = now, delta = now - oldTime
CatFrame ==
    /\ currentBlush' = BlushStep(currentBlush, isBlushing, now - oldTime)
    /\ cat' = CatPose(cat, now, pointer, currentBlush', mounted)
    /\ framesSinceClick' = IF constDelta # 0 THEN framesSinceClick + 1 ELSE 0
    /\ peakBlush' = IF constDelta # 0 /\ isBlushing /\ currentBlush' > peakBlush
                    THEN currentBlush' ELSE peakBlush

-----------------------------------------------------------------------------
(* RotatingTree *)

\* ref.current.rotation.y += delta * 0.15   (0.15 rad/s is 150 microradians per ms)
TreeStepPerFrame(rot, delta, m) == IF "tree" \in m THEN rot + 250 * 150 ELSE rot
TreeStepUnguarded(rot, delta, m) == rot + delta * 150
TreeStep(rot, delta, m) == IF "tree" \in m THEN rot + delta * 150 ELSE rot

\* the RotatingTree useFrame callback
TreeFrame ==
    /\ treeRotY' = TreeStep(treeRotY, now - oldTime, mounted)
    /\ UNCHANGED <<ribbon, effectRuns>>

-----------------------------------------------------------------------------
(* PeelRibbon: the clay wobble *)

\* a mesh as the JSX constructs it: userData.distorted unset, the geometry's
\* vertices vs (1/1000); passes counts the runs of the vertex loop over it
Mesh(vs) == [distorted |-> FALSE, verts |-> vs, passes |-> 0]

\* the body of the vertex loop: the three noise terms are computed from the
\* vertex as read, then added to it
Wobble(v) ==
    [x |-> v.x + Times(Sin(3 * v.y), 30),
     y |-> v.y + Times(Sin(10 * v.y + 5 * v.x), 10),
     z |-> v.z + Times(Cos(RoundDiv(9 * v.y, 2)), 30)]

\* applyClayDistortion(mesh): nothing for a null mesh (attached is false) or a
\* mesh already flagged; otherwise the flag is set and every vertex is moved
applyClayDistortionUnguarded(mesh, attached) ==
    IF ~attached THEN mesh
    ELSE [distorted |-> TRUE,
          verts |-> [i \in 1..Len(mesh.verts) |-> Wobble(mesh.verts[i])],
          passes |-> mesh.passes + 1]
applyClayDistortion(mesh, attached) ==
    IF ~attached THEN mesh
    ELSE IF mesh.distorted THEN mesh
    ELSE [distorted |-> TRUE,
          verts |-> [i \in 1..Len(mesh.verts) |-> Wobble(mesh.verts[i])],
          passes |-> mesh.passes + 1]

\* the effect of PeelRibbon: both meshes, outer first
RibbonEffect ==
    /\ effectRuns < MaxEffectRuns
    /\ effectRuns' = effectRuns + 1
    /\ ribbon' = [outer |-> applyClayDistortion(ribbon.outer, "outer" \in mounted),
                  inner |-> applyClayDistortion(ribbon.inner, "inner" \in mounted)]
    /\ UNCHANGED treeRotY
    /\ UNCHANGED <<clockVars, inputVars, catVars, snowVars, audioVars>>

-----------------------------------------------------------------------------
(* DriftingSnow *)

\* a particle as the useMemo initialiser builds it
Particle(px, py, pz, sp, off, sc) ==
    [x |-> px, y |-> py, z |-> pz, speed |-> sp, driftOffset |-> off, scale |-> sc]

\* what the initialiser can produce: x, z in [-7.5, 7.5], y in [2, 14),
\* speed in [0.01, 0.05), driftOffset in [0, 2 pi), scale in [0.2, 0.6)
IsInitialParticle(q) ==
    /\ q.x >= -7500 /\ q.x <= 7500
    /\ q.z >= -7500 /\ q.z <= 7500
    /\ q.y >= 2000 /\ q.y < 14000
    /\ q.speed >= 10 /\ q.speed < 50
    /\ q.driftOffset >= 0 /\ q.driftOffset < 6283
    /\ q.scale >= 200 /\ q.scale < 600

\* the values (Math.random() - 0.5) * 15 is drawn from at a reset
RandXZ == {-7500, 0, 7499}

\* the body of particles.forEach for one particle: fall, drift, reset below the floor;
\* rx and rz are the random numbers the reset would draw
ParticleStepResetAtFloor(q, time, rx, rz) ==
    LET y1 == q.y - q.speed
        x1 == q.x + Times(Sin(RoundDiv(time, 2) + q.driftOffset), 20)
        z1 == q.z + Times(Cos(RoundDiv(3 * time, 10) + q.driftOffset), 20)
    IN  IF y1 <= -3000
        THEN [q EXCEPT !.x = rx, !.y = 10000, !.z = rz]
        ELSE [q EXCEPT !.x = x1, !.y = y1, !.z = z1]
ParticleStepRespawning(q, time, rx, rz) ==
    LET y1 == q.y - q.speed
        x1 == q.x + Times(Sin(RoundDiv(time, 2) + q.driftOffset), 20)
        z1 == q.z + Times(Cos(RoundDiv(3 * time, 10) + q.driftOffset), 20)
    IN  IF y1 < -3000
        THEN Particle(rx, 10000, rz, 10, 0, 200)
        ELSE [q EXCEPT !.x = x1, !.y = y1, !.z = z1]
ParticleStepClamped(q, time, rx, rz) ==
    LET y1 == q.y - q.speed
        x1 == q.x + Times(Sin(RoundDiv(time, 2) + q.driftOffset), 20)
        z1 == q.z + Times(Cos(RoundDiv(3 * time, 10) + q.driftOffset), 20)
    IN  IF y1 < -3000
        THEN [q EXCEPT !.x = rx, !.y = -3000, !.z = rz]
        ELSE [q EXCEPT !.x = x1, !.y = y1, !.z = z1]
ParticleStepResetBeforeFall(q, time, rx, rz) ==
    LET y1 == q.y - q.speed
        x1 == q.x + Times(Sin(RoundDiv(time, 2) + q.driftOffset), 20)
        z1 == q.z + Times(Cos(RoundDiv(3 * time, 10) + q.driftOffset), 20)
    IN  IF q.y < -3000
        THEN [q EXCEPT !.x = rx, !.y = 10000, !.z = rz]
        ELSE [q EXCEPT !.x = x1, !.y = y1, !.z = z1]
ParticleStep(q, time, rx, rz) ==
    LET y1 == q.y - q.speed
        x1 == q.x + Times(Sin(RoundDiv(time, 2) + q.driftOffset), 20)
        z1 == q.z + Times(Cos(RoundDiv(3 * time, 10) + q.driftOffset), 20)
    IN  IF y1 < -3000
        THEN [q EXCEPT !.x = rx, !.y = 10000, !.z = rz]
        ELSE [q EXCEPT !.x = x1, !.y = y1, !.z = z1]

\* whether the frame resets particle q
Resets(q) == q.y - q.speed < -3000

\* the DriftingSnow useFrame callback: nothing when the mesh ref is null
SnowStep(ps, time, rx, rz, m) ==
    IF "snow" \notin m THEN ps
    ELSE [i \in 1..Len(ps) |-> ParticleStep(ps[i], time, rx[i], rz[i])]

\* The callback at elapsed time `time`.  Random numbers are drawn only for the
\* particles that are reset.
SnowFrameAt(time) ==
    /\ \E fx, fz \in [{i \in 1..Len(particles) : Resets(particles[i])} -> RandXZ] :
        LET rx == [i \in 1..Len(particles) |-> IF Resets(particles[i]) THEN fx[i] ELSE 0]
            rz == [i \in 1..Len(particles) |-> IF Resets(particles[i]) THEN fz[i] ELSE 0]
        IN  particles' = SnowStep(particles, time, rx, rz, mounted)
    /\ sinceWrap' = [i \in 1..Len(particles) |->
                        IF particles'[i].y = 10000 THEN 0 ELSE sinceWrap[i] + 1]

SnowFrame == SnowFrameAt(now)

-----------------------------------------------------------------------------
(* The host: clock, display refreshes, pointer *)

\* no pending timeout is left waiting longer than the host's latency
TimersAllow(t) == \A tm \in timers : t <= tm.due + MaxLateTicks * 250

\* the clock moves on by one observed step
Advance ==
    \E d \in Steps :
        /\ now + d <= horizon
        /\ now + d - oldTime <= MaxGapTicks * 250
        /\ TimersAllow(now + d)
        /\ now' = now + d
        /\ UNCHANGED <<oldTime, horizon, constDelta>>
        /\ UNCHANGED <<inputVars, catVars, treeVars, snowVars, audioVars>>

\* Under a constant frame period the clock moves to the next instant at which
\* something can happen: the next display refresh (one period after the previous
\* one), the middle of the period, or the instant a timeout falls due.  It never
\* moves past a refresh.
AdvanceToEvent ==
    \E t \in {oldTime + constDelta, oldTime + constDelta \div 2}
                \cup {tm.due : tm \in timers} :
        /\ t > now
        /\ t <= oldTime + constDelta
        /\ t <= horizon
        /\ TimersAllow(t)
        /\ now' = t
        /\ UNCHANGED <<oldTime, horizon, constDelta>>
        /\ UNCHANGED <<inputVars, catVars, treeVars, snowVars, audioVars>>

\* a display refresh is due: time has passed since the previous one
RefreshDue ==
    /\ now > oldTime
    /\ constDelta # 0 => now - oldTime = constDelta

\* a display refresh of the CalicoCat component
CatRefresh ==
    /\ RefreshDue
    /\ CatFrame
    /\ oldTime' = now
    /\ UNCHANGED <<now, horizon, constDelta>>
    /\ UNCHANGED <<inputVars, timerVars, treeVars, snowVars, audioVars>>

\* a display refresh of the RotatingTree component
TreeRefresh ==
    /\ RefreshDue
    /\ TreeFrame
    /\ oldTime' = now
    /\ UNCHANGED <<now, horizon, constDelta>>
    /\ UNCHANGED <<inputVars, catVars, snowVars, audioVars>>

\* a display refresh of the DriftingSnow component
SnowRefresh ==
    /\ RefreshDue
    /\ SnowFrame
    /\ oldTime' = now
    /\ UNCHANGED <<now, horizon, constDelta>>
    /\ UNCHANGED <<inputVars, catVars, treeVars, audioVars>>

\* a display refresh of the whole scene: the host loop runs every subscriber with
\* the same elapsed time, delta and pointer
SceneRefresh ==
    /\ RefreshDue
    /\ CatFrame
    /\ TreeFrame
    /\ SnowFrame
    /\ oldTime' = now
    /\ UNCHANGED <<now, horizon, constDelta>>
    /\ UNCHANGED <<inputVars, timerVars, audioVars>>

\* the pointer moves over the canvas
PointerMove ==
    /\ moves < MaxMoves
    /\ pointer' \in Pointers \ {pointer}
    /\ moves' = moves + 1
    /\ UNCHANGED <<mounted, sceneEdges>>
    /\ UNCHANGED <<clockVars, catVars, treeVars, snowVars, audioVars>>

-----------------------------------------------------------------------------
(* Initial states, by component *)

InitClock(h, deltas) ==
    /\ now = 0
    /\ oldTime = 0
    /\ horizon = h
    /\ constDelta \in deltas

\* The named nodes of the scene as the JSX nests them: the tilted group holds the
\* rotating tree (with the ribbon's two meshes) and the cat, whose body group
\* holds head, arms and tail; the cheeks sit in the face group of the head; the
\* snow mesh hangs under its own group.
SceneGraphCheekShared ==
    { <<"scene", "stage">>, <<"stage", "tilt">>,
      <<"tilt", "tree">>, <<"tree", "ribbonGroup">>,
      <<"ribbonGroup", "outer">>, <<"ribbonGroup", "inner">>,
      <<"tilt", "body">>, <<"body", "head">>, <<"head", "face">>,
      <<"face", "leftCheek">>, <<"face", "rightCheek">>, <<"body", "leftCheek">>,
      <<"body", "leftArm">>, <<"body", "rightArm">>, <<"body", "tail">>,
      <<"scene", "snowGroup">>, <<"snowGroup", "snow">> }
SceneGraph ==
    { <<"scene", "stage">>, <<"stage", "tilt">>,
      <<"tilt", "tree">>, <<"tree", "ribbonGroup">>,
      <<"ribbonGroup", "outer">>, <<"ribbonGroup", "inner">>,
      <<"tilt", "body">>, <<"body", "head">>, <<"head", "face">>,
      <<"face", "leftCheek">>, <<"face", "rightCheek">>,
      <<"body", "leftArm">>, <<"body", "rightArm">>, <<"body", "tail">>,
      <<"scene", "snowGroup">>, <<"snowGroup", "snow">> }

InitInput ==
    /\ pointer = [x |-> 0, y |-> 0]
    /\ moves = 0
    /\ mounted = AllRefs
    /\ sceneEdges = SceneGraph

InitCat ==
    /\ isBlushing = FALSE
    /\ blushTimeoutRef = 0
    /\ timers = {}
    /\ nextTimerId = 1
    /\ currentBlush = 0
    /\ cat = CatRest
    /\ clicks = 0
    /\ lastClick = -1
    /\ framesSinceClick = 0
    /\ peakBlush = 0

\* vertices of the ribbon geometry tried (the ribbon spans y from -1 to 3.5)
RibbonVertices ==
    { [x |-> 500, y |-> 3500, z |-> 0], [x |-> -1600, y |-> 1250, z |-> 0],
      [x |-> 0, y |-> 0, z |-> 1500], [x |-> 0, y |-> -1000, z |-> -2700] }

InitRibbon(geos) ==
    /\ \E go, gi \in geos : ribbon = [outer |-> Mesh(go), inner |-> Mesh(gi)]
    /\ effectRuns = 0

InitTree ==
    /\ treeRotY = 0
    /\ InitRibbon({<<>>})

InitSnow(inits) ==
    /\ particles \in inits
    /\ sinceWrap = [i \in 1..Len(particles) |-> 0]

InitAudio ==
    /\ isPlaying = FALSE
    /\ el = [state |-> "paused", volume |-> 1000]
    /\ pending = {}
    /\ autoOutcome = "none"
    /\ playCalls = 0
    /\ toggles = 0
    /\ unhandled = 0
    /\ playReturnsPromise \in BOOLEAN
    /\ beforePress = <<>>

-----------------------------------------------------------------------------
(* SpecBlush: the blush state under free frame timing *)

InitBlush ==
    /\ InitClock(MaxTicks * 250, {0})
    /\ InitInput /\ InitCat /\ InitTree /\ InitSnow({<<>>}) /\ InitAudio
    /\ playReturnsPromise

NextBlush == handleHeadClick \/ TimeoutFires \/ CatRefresh \/ Advance

SpecBlush == InitBlush /\ [][NextBlush]_vars

-----------------------------------------------------------------------------
(* SpecRise: a single click under a constant frame period with 3 * delta <= 1 *)

\* the frame periods tried (ms): lerp factors 0.15 ... 0.999
RiseDeltas == {50, 100, 150, 200, 250, 300, 333}

InitRise ==
    /\ InitClock(MaxTicks * 250, RiseDeltas)
    /\ InitInput /\ InitCat /\ InitTree /\ InitSnow({<<>>}) /\ InitAudio
    /\ playReturnsPromise

\* the one head click of the run
RiseClick == clicks = 0 /\ handleHeadClick

NextRise == RiseClick \/ TimeoutFires \/ CatRefresh \/ AdvanceToEvent

SpecRise == InitRise /\ [][NextRise]_vars

-----------------------------------------------------------------------------
(* SpecHead: head tracking under a moving pointer *)

HeadDeltas == {100, 250}

InitHead ==
    /\ InitClock(MaxTicks * 250, HeadDeltas)
    /\ InitInput /\ InitCat /\ InitTree /\ InitSnow({<<>>}) /\ InitAudio
    /\ playReturnsPromise

NextHead == PointerMove \/ CatRefresh \/ AdvanceToEvent

SpecHead == InitHead /\ [][NextHead]_vars

-----------------------------------------------------------------------------
(* SpecTrack: head tracking with the pointer at the corners of the canvas *)

\* state.pointer is normalised to [-1, 1] on both axes; these are two opposite corners
TrackPointers == { [x |-> 1000, y |-> 1000], [x |-> -1000, y |-> -1000] }

\* the pointer jumps to a corner of the canvas
PointerToCorner ==
    /\ moves < MaxMoves
    /\ pointer' \in TrackPointers \ {pointer}
    /\ moves' = moves + 1
    /\ UNCHANGED <<mounted, sceneEdges>>
    /\ UNCHANGED <<clockVars, catVars, treeVars, snowVars, audioVars>>

InitTrack ==
    /\ InitClock(MaxTrackTicks * 250, {250})
    /\ InitInput /\ InitCat /\ InitTree /\ InitSnow({<<>>}) /\ InitAudio
    /\ playReturnsPromise

NextTrack == PointerToCorner \/ CatRefresh \/ AdvanceToEvent

SpecTrack == InitTrack /\ [][NextTrack]_vars

-----------------------------------------------------------------------------
(* SpecTree: the rotating tree under free frame timing *)

InitTreeOnly ==
    /\ InitClock(MaxTreeTicks * 250, {0})
    /\ InitInput /\ InitCat /\ InitTree /\ InitSnow({<<>>}) /\ InitAudio
    /\ playReturnsPromise

NextTree == TreeRefresh \/ Advance

SpecTree == InitTreeOnly /\ [][NextTree]_vars

-----------------------------------------------------------------------------
(* SpecSnow: the drifting snow at 16 ms per frame *)

\* particle sets the initialiser can produce; the ones that start low and fall fast
\* cross the floor within the behaviour, one of them after resting exactly on it
SnowInits ==
    { << Particle(0, 2000, 0, 40, 0, 200),
         Particle(-7500, 2000, 7500, 49, 3000, 599) >>,
      << Particle(7500, 2040, -7500, 40, 6282, 400),
         Particle(100, 13999, -100, 10, 1571, 300) >>,
      << Particle(-3000, 2005, 3000, 49, 100, 250) >> }

InitSnowOnly ==
    /\ InitClock(MaxTicks * 250, {16})
    /\ InitInput /\ InitCat /\ InitTree /\ InitSnow(SnowInits) /\ InitAudio
    /\ playReturnsPromise

\* at a constant period nothing happens between two refreshes
AdvanceToRefresh ==
    /\ now = oldTime
    /\ AdvanceToEvent
    /\ now' = oldTime + constDelta

NextSnow == SnowRefresh \/ AdvanceToRefresh

SpecSnow == InitSnowOnly /\ [][NextSnow]_vars

-----------------------------------------------------------------------------
(* SpecSnowScene: the snow of the scene, <DriftingSnow count={80} /> *)

\* the count the scene passes to DriftingSnow
SnowCount == 80

\* One outcome of the initialiser for 80 particles: the first one starts low and
\* falls fast, so that it crosses the floor within the behaviour; the others are
\* spread over the upper part of the range.
SceneSnow ==
    [i \in 1..SnowCount |->
        IF i = 1 THEN Particle(0, 2000, 0, 49, 0, 200)
        ELSE Particle(-7500 + ((i * 187) % 15001), 8000 + ((i * 73) % 6000),
                      7500 - ((i * 311) % 15001), 10 + (i % 17),
                      (i * 79) % 6283, 200 + ((i * 5) % 400))]

InitSnowScene ==
    /\ InitClock(MaxTicks * 250, {16})
    /\ InitInput /\ InitCat /\ InitTree /\ InitSnow({SceneSnow}) /\ InitAudio
    /\ playReturnsPromise

SpecSnowScene == InitSnowScene /\ [][NextSnow]_vars

-----------------------------------------------------------------------------
(* SpecSnowLive: the drifting snow for ever *)

\* The callback reads the elapsed time only through sin(time * 0.5 + offset) and
\* cos(time * 0.3 + offset), which repeat every 20 pi seconds (62830 ms here), so
\* the clock is kept modulo that period; a frame is observed at every tenth of it.
SnowTick ==
    /\ SnowFrameAt((now + 6283) % 62830)
    /\ now' = (now + 6283) % 62830
    /\ oldTime' = now'
    /\ UNCHANGED <<horizon, constDelta>>
    /\ UNCHANGED <<inputVars, catVars, treeVars, audioVars>>

SnowInitsLive ==
    { << Particle(0, 2000, 0, 40, 0, 200) >>,
      << Particle(100, 13999, -100, 10, 1571, 300) >>,
      << Particle(-7500, 2000, 7500, 49, 3000, 599),
         Particle(7500, 9000, -7500, 49, 6282, 400) >> }

InitSnowLive ==
    /\ InitClock(0, {6283})
    /\ InitInput /\ InitCat /\ InitTree /\ InitSnow(SnowInitsLive) /\ InitAudio
    /\ playReturnsPromise

\* frame updates keep occurring
SpecSnowLive == InitSnowLive /\ [][SnowTick]_vars /\ WF_vars(SnowTick)

-----------------------------------------------------------------------------
(* SpecScene: every subscriber of the host loop, refreshed together *)
(* (a slow host: one frame every 500 ms)                               *)

SceneInits == { << Particle(0, 2000, 0, 40, 0, 200),
                   Particle(-7500, 13999, 7500, 49, 3000, 599) >> }

InitScene ==
    /\ InitClock(MaxSceneTicks * 250, {500})
    /\ InitInput /\ InitCat /\ InitTree /\ InitSnow(SceneInits) /\ InitAudio
    /\ playReturnsPromise

NextScene ==
    handleHeadClick \/ TimeoutFires \/ PointerMove \/ SceneRefresh \/ AdvanceToEvent

SpecScene == InitScene /\ [][NextScene]_vars

-----------------------------------------------------------------------------
(* SpecPose: the pose at every millisecond of elapsed time *)

\* the first frame runs while the clock still reads 0 (delta 0, elapsed time 0)
FirstFrame ==
    /\ now = 0
    /\ oldTime = 0
    /\ cat = CatRest
    /\ CatFrame
    /\ UNCHANGED <<clockVars, inputVars, timerVars, treeVars, snowVars, audioVars>>

\* the host stalls: the next frame comes at elapsed time t
PoseAdvance ==
    /\ now = 0
    /\ \E t \in 1..MaxPoseMs :
        /\ TimersAllow(t)
        /\ now' = t
    /\ UNCHANGED <<oldTime, horizon, constDelta>>
    /\ UNCHANGED <<inputVars, catVars, treeVars, snowVars, audioVars>>

\* at most one pointer move and one head click, at any point of the run
PoseMove == moves = 0 /\ PointerMove
PoseClick == clicks = 0 /\ handleHeadClick

InitPose ==
    /\ InitClock(MaxPoseMs, {0})
    /\ InitInput /\ InitCat /\ InitTree /\ InitSnow({<<>>}) /\ InitAudio
    /\ playReturnsPromise

NextPose ==
    FirstFrame \/ PoseAdvance \/ CatRefresh \/ PoseMove \/ PoseClick \/ TimeoutFires

SpecPose == InitPose /\ [][NextPose]_vars

-----------------------------------------------------------------------------
(* SpecHistory: the cat under different frame periods, pointer moves and clicks *)

\* frame periods (ms) whose frames meet at 0.75 s, 1.5 s and 2.25 s
HistoryDeltas == {375, 750}

InitHistory ==
    /\ InitClock(MaxHistoryTicks * 250, HistoryDeltas)
    /\ InitInput /\ InitCat /\ InitTree /\ InitSnow({<<>>}) /\ InitAudio
    /\ playReturnsPromise

NextHistory ==
    handleHeadClick \/ TimeoutFires \/ PointerMove \/ CatRefresh \/ AdvanceToEvent

SpecHistory == InitHistory /\ [][NextHistory]_vars

-----------------------------------------------------------------------------
(* SpecGraph: the whole scene, with the ribbon's effect *)

NextGraph ==
    \/ handleHeadClick \/ TimeoutFires \/ PointerMove \/ SceneRefresh
    \/ AdvanceToEvent \/ RibbonEffect

SpecGraph == InitScene /\ [][NextGraph]_vars

-----------------------------------------------------------------------------
(* SpecMount: the scene's callbacks run while some refs hold null *)

\* Every ref starts as useRef(null) and holds null until its node is attached; each
\* callback tests its refs before it uses them.  The frames are run with the snow
\* mesh, the tree group, and parts of the cat missing, and with nothing attached.
MountSets ==
    { AllRefs \ {"snow"},
      AllRefs \ {"tree"},
      AllRefs \ {"head"},
      AllRefs \ {"body", "leftCheek"},
      AllRefs \ {"tail", "leftArm", "rightCheek"},
      AllRefs \ CatRefs,
      {} }

InitMount ==
    /\ InitClock(MaxSceneTicks * 250, {500})
    /\ pointer = [x |-> 0, y |-> 0]
    /\ moves = 0
    /\ mounted \in MountSets
    /\ sceneEdges = SceneGraph
    /\ InitCat /\ InitTree /\ InitSnow(SceneInits) /\ InitAudio
    /\ playReturnsPromise

NextMount == handleHeadClick \/ TimeoutFires \/ SceneRefresh \/ AdvanceToEvent

SpecMount == InitMount /\ [][NextMount]_vars

-----------------------------------------------------------------------------
(* SpecRibbon: the distortion effect, executed again and again *)

\* the geometries tried: one or two vertices each
RibbonGeos ==
    {<<v>> : v \in RibbonVertices} \cup {<<v, w>> : v, w \in RibbonVertices}

\* The argument of applyClayDistortion is THREE.Mesh | null: the effect is run
\* with both refs attached, and with one or both of them null.
RibbonMounts == {AllRefs, AllRefs \ {"inner"}, AllRefs \ {"outer"}, AllRefs \ RibbonRefs}

InitRibbonOnly ==
    /\ InitClock(0, {0})
    /\ pointer = [x |-> 0, y |-> 0]
    /\ moves = 0
    /\ mounted \in RibbonMounts
    /\ sceneEdges = SceneGraph
    /\ InitCat /\ treeRotY = 0 /\ InitRibbon(RibbonGeos) /\ InitSnow({<<>>}) /\ InitAudio
    /\ playReturnsPromise

NextRibbon == RibbonEffect

SpecRibbon == InitRibbonOnly /\ [][NextRibbon]_vars

-----------------------------------------------------------------------------
(* App: background music *)

\* audioRef.current.play() on an element the host lets play: a paused (or failed)
\* element starts loading; the returned promise stays pending until playback starts
ElementAfterPlay(e) ==
    IF e.state \in {"paused", "error"} THEN [e EXCEPT !.state = "waiting"] ELSE e

\* the promise handlers of the mount effect: .then sets the flag, .catch clears it;
\* a promise returned to toggleMusic has no handler
AfterResolve(ps) == IF "auto" \in ps THEN TRUE ELSE isPlaying
AfterReject(ps) == IF "auto" \in ps THEN FALSE ELSE isPlaying
UnhandledIn(ps) == IF "toggle" \in ps THEN 1 ELSE 0

\* The mount effect (dependency list []: it runs once).  The host either blocks the
\* autoplay, and the promise is rejected before anything else can happen, or lets
\* the element start loading.
MountEffect ==
    /\ autoOutcome = "none"
    /\ IF "audio" \notin mounted
       THEN /\ autoOutcome' = "skipped"
            /\ UNCHANGED <<isPlaying, el, pending, playCalls>>
       ELSE /\ playCalls' = playCalls + 1
            /\ \E blocked \in BOOLEAN :
                IF ~playReturnsPromise
                THEN /\ autoOutcome' = "undefined"
                     /\ el' = IF blocked THEN [el EXCEPT !.volume = 300]
                              ELSE ElementAfterPlay([el EXCEPT !.volume = 300])
                     /\ UNCHANGED <<isPlaying, pending>>
                ELSE IF blocked
                THEN /\ autoOutcome' = "rejected"
                     /\ el' = [el EXCEPT !.volume = 300]
                     /\ isPlaying' = FALSE
                     /\ UNCHANGED pending
                ELSE /\ autoOutcome' = "pending"
                     /\ el' = ElementAfterPlay([el EXCEPT !.volume = 300])
                     /\ pending' = pending \cup {"auto"}
                     /\ UNCHANGED isPlaying
    /\ UNCHANGED <<toggles, unhandled, playReturnsPromise, beforePress>>
    /\ UNCHANGED <<clockVars, inputVars, catVars, treeVars, snowVars>>

\* playback starts: every pending play promise is resolved
PlaybackStarts ==
    /\ el.state = "waiting"
    /\ el' = [el EXCEPT !.state = "playing"]
    /\ isPlaying' = AfterResolve(pending)
    /\ autoOutcome' = IF "auto" \in pending THEN "resolved" ELSE autoOutcome
    /\ pending' = {}
    /\ UNCHANGED <<playCalls, toggles, unhandled, playReturnsPromise, beforePress>>
    /\ UNCHANGED <<clockVars, inputVars, catVars, treeVars, snowVars>>

\* the streamed media cannot be loaded, or breaks off while it plays: every
\* pending play promise is rejected
LoadFailsRetrying ==
    /\ el.state \in {"waiting", "playing"}
    /\ el' = [el EXCEPT !.state = "waiting"]
    /\ isPlaying' = AfterReject(pending)
    /\ autoOutcome' = IF "auto" \in pending THEN "rejected" ELSE autoOutcome
    /\ unhandled' = unhandled + UnhandledIn(pending)
    /\ pending' = {}
    /\ playCalls' = playCalls + 1
    /\ beforePress' = <<>>
    /\ UNCHANGED <<toggles, playReturnsPromise>>
    /\ UNCHANGED <<clockVars, inputVars, catVars, treeVars, snowVars>>
LoadFails ==
    /\ el.state \in {"waiting", "playing"}
    /\ el' = [el EXCEPT !.state = "error"]
    /\ isPlaying' = AfterReject(pending)
    /\ autoOutcome' = IF "auto" \in pending THEN "rejected" ELSE autoOutcome
    /\ unhandled' = unhandled + UnhandledIn(pending)
    /\ pending' = {}
    /\ beforePress' = <<>>
    /\ UNCHANGED <<playCalls, toggles, playReturnsPromise>>
    /\ UNCHANGED <<clockVars, inputVars, catVars, treeVars, snowVars>>

\* whether the element is playing or has been told to: !audio.paused
Unpaused(e) == e.state \in {"waiting", "playing"}

\* The history of presses: the flag and the element as a press found them, for the
\* last two presses made with the element present and no play promise pending; a
\* press made while a promise is pending starts the history afresh.
Pressed(h) ==
    IF "audio" \notin mounted \/ pending # {} THEN <<>>
    ELSE LET snap == [isPlaying |-> isPlaying, unpaused |-> Unpaused(el)]
         IN  IF Len(h) = 2 THEN <<h[2], snap>> ELSE Append(h, snap)

\* toggleMusic: pause() rejects the pending play promises; play() is not awaited.
\* The button is pressed after the mount effect has run (React flushes the effects
\* of a render before it dispatches an event).
toggleMusic ==
    /\ autoOutcome # "none"
    /\ toggles < MaxToggles
    /\ toggles' = toggles + 1
    /\ beforePress' = Pressed(beforePress)
    /\ IF "audio" \notin mounted
       THEN UNCHANGED <<isPlaying, el, pending, autoOutcome, playCalls, unhandled>>
       ELSE IF isPlaying
       THEN /\ el' = [el EXCEPT !.state = "paused"]
            /\ isPlaying' = FALSE
            /\ autoOutcome' = IF "auto" \in pending THEN "rejected" ELSE autoOutcome
            /\ unhandled' = unhandled + UnhandledIn(pending)
            /\ pending' = {}
            /\ UNCHANGED playCalls
       ELSE /\ el' = ElementAfterPlay(el)
            /\ playCalls' = playCalls + 1
            /\ pending' = IF playReturnsPromise /\ el'.state = "waiting"
                          THEN pending \cup {"toggle"} ELSE pending
            /\ isPlaying' = TRUE
            /\ UNCHANGED <<autoOutcome, unhandled>>
    /\ UNCHANGED playReturnsPromise
    /\ UNCHANGED <<clockVars, inputVars, catVars, treeVars, snowVars>>

InitAudioOnly ==
    /\ InitClock(0, {0})
    /\ InitInput /\ InitCat /\ InitTree /\ InitSnow({<<>>}) /\ InitAudio

NextAudio == MountEffect \/ PlaybackStarts \/ LoadFails \/ toggleMusic

SpecAudio == InitAudioOnly /\ [][NextAudio]_vars

\* audioRef starts as useRef(null): the button and the mount effect are also run
\* with the ref still null
InitAudioMount ==
    /\ InitClock(0, {0})
    /\ pointer = [x |-> 0, y |-> 0]
    /\ moves = 0
    /\ mounted \in {AllRefs, AllRefs \ {"audio"}}
    /\ sceneEdges = SceneGraph
    /\ InitCat /\ InitTree /\ InitSnow({<<>>}) /\ InitAudio

SpecAudioMount == InitAudioMount /\ [][NextAudio]_vars

-----------------------------------------------------------------------------
(* Claims about the blush timer and the blush scalar *)

\* C1 (SpecBlush): repeated head clicks restart the 2-second timer: during the
\* 2 seconds that follow the most recent click the blush boolean is true, whatever
\* timeouts earlier clicks scheduled (clicks at 0 s and 1.5 s keep it true until
\* 3.5 s).
C1_BlushHeldSinceLastClick ==
    (lastClick # -1 /\ now < lastClick + BlushDelay) => isBlushing

\* the spec's example: a second click at 1.5 s, and the boolean still true at 3.25 s
C1_Witness ==
    /\ clicks = 2
    /\ lastClick = 1500
    /\ now = 3250
    /\ isBlushing

\* C2 (SpecBlush), as claimed: once the boolean is false again, every frame update
\* brings the blush scalar closer to 0, or leaves it where it is.
C2_FramesDecayTowardZero ==
    [][(~isBlushing /\ oldTime' # oldTime) => Abs(currentBlush') <= Abs(currentBlush)]_vars

\* C3 (SpecBlush), as claimed: the blush scalar stays within [0, 1].
C3_BlushWithinUnitInterval == currentBlush >= 0 /\ currentBlush <= 1000

\* frames within which the scalar has risen to 0.99: those of 1.6 s, and one more
RiseFrames(d) == (1600 \div d) + 1

\* C4 (SpecRise): from scalar 0, after one click and frames of constant delta with
\* 0 < 3 * delta <= 1, the scalar is at least 0.99 once RiseFrames(delta) frames
\* have run, and it has been at least 0.99 when the timeout turns the boolean off.
C4_RisesBeforeExpiry ==
    clicks = 1 =>
        /\ (isBlushing /\ framesSinceClick >= RiseFrames(constDelta)) => currentBlush >= 990
        /\ ~isBlushing => peakBlush >= 990

\* the slowest period: the boolean has been turned off, after the scalar reached 0.99
C4_Witness ==
    /\ constDelta = 50
    /\ clicks = 1
    /\ ~isBlushing
    /\ peakBlush >= 990

-----------------------------------------------------------------------------
(* Claims about the frame update as a whole *)

\* the state a second run of the callbacks leaves, with the inputs of the refresh
\* that has just been taken (elapsed time now, delta now - oldTime, the pointer)
BlushAgain == BlushStep(currentBlush', isBlushing, now - oldTime)
CatAgain == CatPose(cat', now, pointer, BlushAgain, mounted)
TreeAgain == TreeStep(treeRotY', now - oldTime, mounted)
SnowAgain ==
    SnowStep(particles', now, [i \in 1..Len(particles) |-> 0],
             [i \in 1..Len(particles) |-> 0], mounted)

\* C5 (SpecScene), as claimed: a second frame update with the same inputs leaves the
\* head rotation, the blush scalar, the tree rotation and the particle positions
\* as the first one left them.
C5_FrameUpdateIdempotent ==
    [][oldTime' # oldTime =>
            /\ CatAgain.headRotX = cat'.headRotX
            /\ CatAgain.headRotY = cat'.headRotY
            /\ CatAgain.headRotZ = cat'.headRotZ
            /\ BlushAgain = currentBlush'
            /\ TreeAgain = treeRotY'
            /\ SnowAgain = particles']_vars

\* C5, amended (SpecScene): a second frame update with the same inputs leaves the
\* values that are set from the elapsed time alone as the first one left them:
\* body position.y and rotation.z, tail rotation.x and rotation.y, left arm
\* rotation.z and head rotation.z.
C5_StatelessPartsIdempotent ==
    [][oldTime' # oldTime =>
            /\ CatAgain.bodyPosY = cat'.bodyPosY
            /\ CatAgain.bodyRotZ = cat'.bodyRotZ
            /\ CatAgain.tailRotX = cat'.tailRotX
            /\ CatAgain.tailRotY = cat'.tailRotY
            /\ CatAgain.leftArmRotZ = cat'.leftArmRotZ
            /\ CatAgain.headRotZ = cat'.headRotZ]_vars

\* a refresh has moved the body off its rest height, the tree and the blush scalar
C5_Witness ==
    /\ oldTime = now
    /\ oldTime > 0
    /\ cat.bodyPosY # -1800
    /\ treeRotY > 0
    /\ currentBlush > 0

-----------------------------------------------------------------------------
(* Claims about the drifting snow *)

\* C6 (SpecSnow): in every frame each particle's new y is y - speed, unless that is
\* strictly below -3: then y is exactly 10 and x and z are fresh values of
\* [-7.5, 7.5]; a particle that comes to rest at exactly -3 is not reset.
C6_ParticleStep ==
    [][oldTime' # oldTime =>
        /\ Len(particles') = Len(particles)
        /\ \A i \in 1..Len(particles) :
            IF particles[i].y - particles[i].speed < -3000
            THEN /\ particles'[i].y = 10000
                 /\ particles'[i].x \in RandXZ
                 /\ particles'[i].z \in RandXZ
            ELSE particles'[i].y = particles[i].y - particles[i].speed]_vars

\* frame 125: the first particle rests exactly on the floor, the second one was
\* reset 22 frames ago
C6_Witness ==
    /\ Len(particles) = 2
    /\ particles[1].y = -3000
    /\ particles[2].y = 10000 - 22 * 49

\* frames a particle of speed sp needs at most to fall from its start (below 14)
\* to the floor (-3) and be reset
WrapBound(sp) == (17000 \div sp) + 1

\* C7 (SpecSnowLive): every particle keeps a speed of at least 0.01 per frame and
\* is put at y = 10 within WrapBound(speed) frame updates of its creation or of its
\* previous reset; so, as frame updates keep occurring, it is reset again and again.
C7_EveryParticleWrapsWithinBound ==
    \A i \in 1..Len(particles) :
        /\ particles[i].speed >= 10
        /\ sinceWrap[i] <= WrapBound(particles[i].speed)

\* the slowest particle has been reset
C7_Witness ==
    /\ particles[1].speed = 10
    /\ particles[1].y = 10000
    /\ sinceWrap[1] = 0

-----------------------------------------------------------------------------
(* Claims about the rotating tree *)

\* C8 (SpecTree): after frames whose deltas sum to T (the clock of the latest
\* frame), rotation.y is 0.15 * T, also modulo 2 pi, however T was cut into frames.
C8_TreeRotationFrameRateIndependent ==
    /\ treeRotY = 150 * oldTime
    /\ treeRotY % 6283185 = (150 * oldTime) % 6283185

\* 42 s of frames: the angle has passed 2 pi
C8_Witness ==
    /\ oldTime = 42000
    /\ treeRotY = 6300000

-----------------------------------------------------------------------------
(* Claims about head tracking *)

\* the target of head rotation.x for the pointer of the current frame
HeadTargetX == -Times(pointer.y, 300)

\* C9 (SpecHead): in every frame head rotation.x moves toward -0.3 * pointer.y: its
\* distance to the target does not grow, shrinks while it is more than the rounding
\* unit away, and the rotation does not cross the target.
C9_HeadNeverOvershoots ==
    [][oldTime' # oldTime =>
        /\ Abs(cat'.headRotX - HeadTargetX) <= Abs(cat.headRotX - HeadTargetX)
        /\ Abs(cat.headRotX - HeadTargetX) > 5 =>
                Abs(cat'.headRotX - HeadTargetX) < Abs(cat.headRotX - HeadTargetX)
        /\ cat.headRotX <= HeadTargetX => cat'.headRotX <= HeadTargetX
        /\ cat.headRotX >= HeadTargetX => cat'.headRotX >= HeadTargetX]_vars

\* the pointer has moved twice and the head is on its way back up to the target
C9_Witness ==
    /\ moves = 2
    /\ oldTime = now
    /\ cat.headRotX < HeadTargetX
    /\ cat.headRotX < -100

-----------------------------------------------------------------------------
(* Claims about the background music *)

\* C10 (SpecAudio): the mount effect makes exactly one play attempt; when its
\* promise resolves isPlaying becomes true; when it is rejected the rejection is
\* handled, isPlaying is false, and play is not called again before the button is
\* pressed.
C10_AutoplayOutcome ==
    /\ [] /\ autoOutcome \in {"undefined", "pending", "resolved", "rejected"} => playCalls >= 1
          /\ toggles = 0 => playCalls <= 1
          /\ playCalls <= 1 + toggles
          /\ (autoOutcome = "resolved" /\ toggles = 0) => isPlaying
          /\ (autoOutcome = "rejected" /\ toggles = 0) => (~isPlaying /\ unhandled = 0)
    /\ [][/\ (autoOutcome # "resolved" /\ autoOutcome' = "resolved") => isPlaying'
          /\ (autoOutcome # "rejected" /\ autoOutcome' = "rejected") => ~isPlaying'
          /\ (autoOutcome = "pending" /\ autoOutcome' # "pending" /\ "toggle" \notin pending)
                => unhandled' = unhandled]_vars

\* the media failed to load: the promise of the one attempt was rejected and
\* handled, the button not yet pressed
C10_Witness ==
    /\ autoOutcome = "rejected"
    /\ toggles = 0
    /\ playCalls = 1
    /\ ~isPlaying
    /\ el.state = "error"

\* C11 (SpecAudio), as claimed: whenever no play promise is pending, isPlaying is
\* true exactly when the audio element is playing.
C11_FlagBoundToElement ==
    pending = {} => (isPlaying <=> el.state = "playing")

\* C12 (SpecAudio), as claimed: no rejected play promise is left unhandled, and a
\* step that rejects the pending play promises leaves isPlaying false.
C12_NoPlayFailurePropagates ==
    /\ [](unhandled = 0)
    /\ [][(pending # {} /\ pending' = {} /\ el'.state # "playing") => ~isPlaying']_vars

-----------------------------------------------------------------------------
(* Claims about the ribbon *)

\* C13 (SpecRibbon): however often the effect is executed, the vertex loop has run
\* over a mesh exactly once if the mesh is flagged and never otherwise; an attached
\* mesh is flagged once the effect has run; an execution on a flagged mesh, or
\* with a null ref, leaves the mesh as it was.
C13_WobbleOncePerMesh ==
    /\ [](\A r \in RibbonRefs :
            /\ ribbon[r].passes = (IF ribbon[r].distorted THEN 1 ELSE 0)
            /\ (effectRuns > 0 /\ r \in mounted) => ribbon[r].distorted
            /\ r \notin mounted => ~ribbon[r].distorted)
    /\ [][\A r \in RibbonRefs :
            (ribbon[r].distorted \/ r \notin mounted) => ribbon'[r] = ribbon[r]]_vars

\* the effect has run three times: the outer mesh was moved once, the inner ref is null
C13_Witness ==
    /\ effectRuns = 3
    /\ "inner" \notin mounted
    /\ ribbon.outer.passes = 1
    /\ ribbon.outer.verts = <<[x |-> 474, y |-> 3498, z |-> -30]>>
    /\ ribbon.inner.passes = 0

-----------------------------------------------------------------------------
(* Claims about the blush timer as a timestamp *)

\* C14 (SpecBlush), as claimed: the blush boolean is true exactly when the most
\* recent click is less than 2 seconds old.
C14_BlushExactlyWithinTwoSeconds ==
    isBlushing <=> (lastClick # -1 /\ now < lastClick + BlushDelay)

\* C14, amended (SpecBlush): the boolean is true while the most recent click is less
\* than 2 seconds old, and it is true exactly while the timeout scheduled by the
\* most recent click is pending; that timeout is due 2 seconds after the click and
\* the host runs it then or later, so the boolean outlasts the 2 seconds by the
\* host's latency.
C14_TimerRefinesTimestamp ==
    /\ (lastClick # -1 /\ now < lastClick + BlushDelay) => isBlushing
    /\ isBlushing <=>
            \E tm \in timers : tm.id = blushTimeoutRef /\ tm.due = lastClick + BlushDelay
    /\ isBlushing => now <= lastClick + BlushDelay + MaxLateTicks * 250

\* clicks at 0 s and 0.5 s; at 2.75 s the timeout of the second click is overdue
\* and has not run yet
C14_Witness ==
    /\ clicks = 2
    /\ lastClick = 500
    /\ now = 2750
    /\ isBlushing
    /\ timers = {[id |-> 2, due |-> 2500]}

-----------------------------------------------------------------------------
(* Claims about the pose *)

\* C15 (SpecPose): after every frame, at any elapsed time, body position.y is
\* -1.8 + 0.03 * sin(2t) and lies in [-1.83, -1.77], whatever the pointer, the
\* clicks and the frames before.
C15_BodyBobBounded ==
    /\ cat.bodyPosY = -1800 + Times(Sin(2 * oldTime), 30)
    /\ cat.bodyPosY >= -1830
    /\ cat.bodyPosY <= -1770

\* the top of the bob (2t = pi / 2), after a pointer move and a head click
C15_Witness ==
    /\ oldTime = 785
    /\ cat.bodyPosY = -1770
    /\ moves = 1
    /\ clicks = 1

\* C16 (SpecPose): the first frame, run at t = 0 with the pointer at (0, 0) and no
\* click, yields head rotation (0, 0, 0), body position.y -1.8 and roll 0, tail
\* rotation.y 0 and rotation.x -0.5, left arm rotation.z 2.5, blush scalar 0 and
\* cheek scale 1.0.
C16_RestPose ==
    [][(now = 0 /\ cat' # cat /\ pointer = [x |-> 0, y |-> 0] /\ clicks = 0) =>
        /\ cat'.headRotX = 0 /\ cat'.headRotY = 0 /\ cat'.headRotZ = 0
        /\ cat'.bodyPosY = -1800 /\ cat'.bodyRotZ = 0
        /\ cat'.tailRotY = 0 /\ cat'.tailRotX = -500
        /\ cat'.leftArmRotZ = 2500
        /\ currentBlush' = 0
        /\ cat'.leftCheekScale = 1000 /\ cat'.rightCheekScale = 1000]_vars

\* the first frame has run at t = 0: it has set the cheeks' opacity
C16_Witness ==
    /\ now = 0
    /\ moves = 0
    /\ clicks = 0
    /\ cat.leftCheekOpacity = 200
    /\ cat.leftArmRotZ = 2500
    /\ cat.tailRotX = -500

\* C17 (SpecPose): tail rotation.y is 0.3 * sin(3t): within [-0.3, 0.3], and 0.3
\* where 3t = pi / 2 (to the millisecond); tail rotation.x is within [-0.55, -0.45].
C17_TailSweep ==
    /\ cat.tailRotY = Times(Sin(3 * oldTime), 300)
    /\ cat.tailRotY >= -300 /\ cat.tailRotY <= 300
    /\ Abs(3 * oldTime - 1571) <= 1 => cat.tailRotY = 300
    /\ cat.tailRotX >= -550 /\ cat.tailRotX <= -450

\* a frame at 3t = pi / 2: the tail at its peak
C17_Witness ==
    /\ oldTime = 524
    /\ now = 524
    /\ cat.tailRotY = 300

\* C18 (SpecHistory): after a frame at elapsed time t, body position.y and
\* rotation.z, tail rotation.x and rotation.y and left arm rotation.z are the
\* values of fixed functions of t: runs that differ in frame period, earlier
\* frames, pointer moves and clicks agree on them whenever their latest frames are
\* at the same t.
C18_StatelessTransforms ==
    /\ cat.bodyPosY = -1800 + Times(Sin(2 * oldTime), 30)
    /\ cat.bodyRotZ = Times(Sin(RoundDiv(3 * oldTime, 2)), 40)
    /\ cat.tailRotX = -500 + Times(Sin(5 * oldTime), 50)
    /\ cat.tailRotY = Times(Sin(3 * oldTime), 300)
    /\ cat.leftArmRotZ = 2500 + Times(Sin(RoundDiv(5 * oldTime, 2)), 150)

\* a frame at 1.5 s, the fourth of its run, after two pointer moves and two clicks
\* that show in the head rotation and in the blush scalar
C18_Witness ==
    /\ constDelta = 375
    /\ oldTime = 1500
    /\ moves = 2
    /\ clicks = 2
    /\ cat.headRotX # 0
    /\ currentBlush > 0

-----------------------------------------------------------------------------
(* Claims about the particle set *)

\* C19 (SpecSnowScene): after any number of frames there are as many particles as
\* were created, 80 in the scene, and each has the speed, driftOffset and scale it
\* was created with; only positions change.
C19_ParticlesRecycled ==
    /\ Len(particles) = SnowCount
    /\ \A i \in 1..Len(particles) :
        /\ particles[i].speed = SceneSnow[i].speed
        /\ particles[i].driftOffset = SceneSnow[i].driftOffset
        /\ particles[i].scale = SceneSnow[i].scale

\* the first particle has crossed the floor and is falling again, 20 frames after
\* its reset; the last one has fallen for 123 frames
C19_Witness ==
    /\ Len(particles) = 80
    /\ particles[1].y = 10000 - 20 * 49
    /\ particles[1].speed = 49
    /\ particles[80].y = SceneSnow[80].y - 123 * SceneSnow[80].speed
    /\ \A i \in 1..80 : IsInitialParticle(SceneSnow[i])

-----------------------------------------------------------------------------
(* Claims about the cheeks *)

\* C20 (SpecBlush), as claimed: after every frame both cheeks have scale
\* 1.0 + 0.2 * b, opacity 0.2 + 0.6 * b and colour blend b, b being the blush
\* scalar, with the scale in [1.0, 1.2] and the opacity in [0.2, 0.8]; left and
\* right cheek are equal.
C20_CheeksBetweenEndpoints ==
    [][oldTime' # oldTime =>
        /\ cat'.leftCheekScale = 1000 + Times(currentBlush', 200)
        /\ cat'.leftCheekOpacity = 200 + Times(currentBlush', 600)
        /\ cat'.leftCheekMix = currentBlush'
        /\ cat'.rightCheekScale = cat'.leftCheekScale
        /\ cat'.rightCheekOpacity = cat'.leftCheekOpacity
        /\ cat'.rightCheekMix = cat'.leftCheekMix
        /\ cat'.leftCheekScale >= 1000 /\ cat'.leftCheekScale <= 1200
        /\ cat'.leftCheekOpacity >= 200 /\ cat'.leftCheekOpacity <= 800]_vars

-----------------------------------------------------------------------------
(* Claims about the scene graph *)

\* the nodes of the scene graph
SceneNodes == {e[1] : e \in sceneEdges} \cup {e[2] : e \in sceneEdges}

\* C21 (SpecGraph): in every state every node but the root has exactly one parent
\* and the root has none; no frame, head click, timeout, pointer move or run of the
\* ribbon's effect changes the graph.
C21_OneParentEach ==
    /\ [](\A n \in SceneNodes :
            Cardinality({e \in sceneEdges : e[2] = n}) = (IF n = "scene" THEN 0 ELSE 1))
    /\ [][sceneEdges' = sceneEdges]_vars

\* after a click, its timeout, frames and two runs of the effect the graph is the
\* one the JSX built, and the cheeks hang under the face
C21_Witness ==
    /\ clicks = 1
    /\ ~isBlushing
    /\ oldTime >= 2000
    /\ effectRuns = 2
    /\ currentBlush # 0
    /\ <<"face", "leftCheek">> \in sceneEdges
    /\ Cardinality(sceneEdges) = 16

-----------------------------------------------------------------------------
(* Claims about the pending timeout *)

\* C22 (SpecBlush): in every interleaving of clicks, timeouts and frames at most
\* one blush timeout is pending, and while the blush boolean is true a timeout is
\* pending.
C22_OnePendingTimeout ==
    /\ Cardinality(timers) <= 1
    /\ isBlushing => timers # {}

\* a second click made while the timeout of the first is still pending: only the
\* timeout of the second click is left
C22_Witness ==
    /\ clicks = 2
    /\ lastClick > 0
    /\ now < BlushDelay
    /\ isBlushing
    /\ blushTimeoutRef = 2
    /\ {tm.id : tm \in timers} = {2}

-----------------------------------------------------------------------------
(* Claims about the height of the particles *)

\* C23 (SpecSnow): at creation and after every frame update every particle's y
\* lies in [-3, 14); no update leaves a particle below -3.
C23_ParticleHeightBounded ==
    \A i \in 1..Len(particles) :
        /\ particles[i].y >= -3000
        /\ particles[i].y < 14000

\* frame 126 of the snow created with a particle just below 14: the first
\* particle has come down to exactly -3 and stays, the second one is still falling
C23_Witness ==
    /\ Len(particles) = 2
    /\ sinceWrap[1] = 126
    /\ particles[1].y = -3000
    /\ particles[2].y = 13999 - 126 * 10

-----------------------------------------------------------------------------
(* Claims about the range of head tracking *)

\* C24 (SpecTrack): from rotation (0, 0, 0), whatever frames follow with the
\* pointer inside [-1, 1] on both axes, head rotation.x stays in [-0.3, 0.3],
\* rotation.y in [-0.7, 0.7] and rotation.z in [-0.05, 0.05].
C24_HeadTrackingBounded ==
    /\ pointer.x \in -1000..1000 /\ pointer.y \in -1000..1000
    /\ cat.headRotX >= -300 /\ cat.headRotX <= 300
    /\ cat.headRotY >= -700 /\ cat.headRotY <= 700
    /\ cat.headRotZ >= -50 /\ cat.headRotZ <= 50

\* the pointer has stayed in the corner (1, 1) since before the first frame; at
\* 8 s, just after sin(t) has peaked, rotation.y is past 0.6 and rotation.x is
\* close to -0.3
C24_Witness ==
    /\ moves = 1
    /\ pointer = [x |-> 1000, y |-> 1000]
    /\ oldTime = 8000
    /\ cat.headRotY > 600
    /\ cat.headRotX < -280
    /\ cat.headRotZ # 0

-----------------------------------------------------------------------------
(* Claims about the arms *)

\* C25 (SpecScene): the right arm's rotation.z is -2.0, the value it was built
\* with, in every state: no frame, click, timeout or pointer move changes it; of
\* the two arms a frame writes the left one only, as 2.5 + 0.15 * sin(2.5 t).
C25_RightArmNeverAnimated ==
    /\ [](cat.rightArmRotZ = -2000)
    /\ [][/\ cat'.rightArmRotZ = cat.rightArmRotZ
          /\ cat'.leftArmRotZ # cat.leftArmRotZ =>
                /\ oldTime' = now
                /\ cat'.leftArmRotZ = LeftArmRotZ(now)]_vars

\* after a click, its timeout and frames up to 2 s the left arm is away from its
\* rest angle and the right arm is where it was built
C25_Witness ==
    /\ clicks = 1
    /\ timers = {}
    /\ oldTime = 2000
    /\ cat.leftArmRotZ < 2400
    /\ cat.rightArmRotZ = CatRest.rightArmRotZ

-----------------------------------------------------------------------------
(* Claims about frames with refs that hold null *)

\* C26 (SpecMount): a frame whose target is not mounted skips that target and
\* completes: whenever a refresh is due it can be run; with the snow mesh absent
\* no particle changes; with the tree group absent the angle stays; a part of the
\* cat that is absent keeps its transform, and every part that is mounted gets
\* the value the frame computes for it, whatever else is absent.
C26_AbsentTargetsSkipped ==
    /\ [](RefreshDue => ENABLED SceneRefresh)
    /\ [][oldTime' # oldTime =>
            /\ "snow" \notin mounted => particles' = particles
            /\ treeRotY' = (IF "tree" \in mounted
                            THEN treeRotY + 150 * (now - oldTime) ELSE treeRotY)
            /\ <<cat'.headRotX, cat'.headRotY, cat'.headRotZ>> =
                    (IF "head" \in mounted
                     THEN <<HeadRotX(cat, pointer), HeadRotY(cat, now, pointer), HeadRotZ(now)>>
                     ELSE <<cat.headRotX, cat.headRotY, cat.headRotZ>>)
            /\ <<cat'.bodyPosY, cat'.bodyRotZ>> =
                    (IF "body" \in mounted THEN <<BodyPosY(cat, now), BodyRotZ(now)>>
                     ELSE <<cat.bodyPosY, cat.bodyRotZ>>)
            /\ <<cat'.tailRotX, cat'.tailRotY>> =
                    (IF "tail" \in mounted THEN <<TailRotX(now), TailRotY(now)>>
                     ELSE <<cat.tailRotX, cat.tailRotY>>)
            /\ cat'.leftArmRotZ =
                    (IF "leftArm" \in mounted THEN LeftArmRotZ(now) ELSE cat.leftArmRotZ)
            /\ <<cat'.leftCheekScale, cat'.leftCheekOpacity, cat'.leftCheekMix>> =
                    (IF "leftCheek" \in mounted
                     THEN <<BlushScale(currentBlush'), BlushOpacity(currentBlush'), currentBlush'>>
                     ELSE <<cat.leftCheekScale, cat.leftCheekOpacity, cat.leftCheekMix>>)
            /\ <<cat'.rightCheekScale, cat'.rightCheekOpacity, cat'.rightCheekMix>> =
                    (IF "rightCheek" \in mounted
                     THEN <<BlushScale(currentBlush'), BlushOpacity(currentBlush'), currentBlush'>>
                     ELSE <<cat.rightCheekScale, cat.rightCheekOpacity, cat.rightCheekMix>>)
            /\ "snow" \in mounted =>
                    \A i \in 1..Len(particles) : particles'[i].y # particles[i].y]_vars

\* frames up to 1.5 s after a click with body and left cheek absent: both are as
\* they were built, while head, tail, left arm, right cheek, tree and snow moved
C26_Witness ==
    /\ mounted = AllRefs \ {"body", "leftCheek"}
    /\ clicks = 1
    /\ oldTime = 1500
    /\ cat.bodyPosY = CatRest.bodyPosY
    /\ cat.leftCheekScale = 1000
    /\ cat.rightCheekScale > 1000
    /\ cat.tailRotY # 0
    /\ cat.headRotY # 0
    /\ treeRotY = 150 * 1500
    /\ particles[1].y < 2000

-----------------------------------------------------------------------------
(* Claims about the music button *)

\* C27 (SpecAudioMount), as claimed: with no play promise pending and play
\* succeeding, a press of the button flips isPlaying and pauses the element if the
\* flag was set, plays it otherwise; after two consecutive presses isPlaying and
\* the element's playing state are what they were before the first; a press with
\* the audio element absent changes nothing.
C27_ToggleIsInvolution ==
    /\ []((Len(beforePress) = 2 /\ pending = {}) =>
            /\ isPlaying = beforePress[1].isPlaying
            /\ Unpaused(el) = beforePress[1].unpaused)
    /\ [][toggles' # toggles =>
            IF "audio" \notin mounted
            THEN UNCHANGED <<isPlaying, el, pending, playCalls, autoOutcome, unhandled>>
            ELSE pending = {} =>
                    /\ isPlaying' = ~isPlaying
                    /\ Unpaused(el') = isPlaying']_vars

====
